---- MODULE Spec2Model ----
(***************************************************************************)
(* The scan-reconcile-cache pipeline of sbom/index.go: indexImage with its *)
(* sbom.json cache and its two engine goroutines, the entry points         *)
(* IndexImage and IndexPath, and the multi-image fan-out indexImageAsync.  *)
(*                                                                         *)
(* Four state machines share the module:                                   *)
(*   Spec       one call of IndexImage / IndexPath (indexImage inside),    *)
(*              with the engine goroutines interleaved;                    *)
(*   SpecBatch  NumImages indexImageAsync goroutines over one results      *)
(*              channel and one wait group;                                *)
(*   SpecCalls  up to MaxCalls successive runs of IndexPath on one path;   *)
(*   SpecLayers createLayerMapping on images of up to MaxLayers layers.    *)
(*                                                                         *)
(* Go values: a nil pointer / nil error is the empty sequence <<>>, a      *)
(* non-nil pointer is <<v>>, an error is the non-empty sequence of its     *)
(* wrap chain (outermost link first).                                      *)
(***************************************************************************)
EXTENDS Integers, Sequences, FiniteSets, TLC

\* ------------------------------------------------------------------ bounds
\* Longest package list one engine reports.
MaxPkgs == 2
\* Number of image inputs of one multi-image run.
NumImages == 2
\* Most layers of an image handed to createLayerMapping.
MaxLayers == 3
\* Number of successive runs on one extracted-image path.
MaxCalls == 2

\* ------------------------------------------------------------- Go helpers
Nil == <<>>
Ptr(v) == <<v>>
IsNil(p) == p = <<>>
Deref(p) == p[1]

\* errors.New(msg): a chain of one link; a link is <<message, argument>>.
Err(msg) == << <<msg, "">> >>
\* errors.Wrap(err, msg): the message is put in front of the cause.
Wrap(err, msg) == << <<msg, "">> >> \o err
\* errors.Wrapf(err, format, arg)
Wrapf(err, format, arg) == << <<format, arg>> >> \o err

SeqsUpTo(S, n) == UNION {[1..k -> S] : k \in 0..n}

Range(s) == {s[i] : i \in 1..Len(s)}

\* ------------------------------------------------ build metadata (internal)
\* internal.FromBuild(): the tool version and the SBOM schema version of
\* the running build.
FromBuild == [Version |-> "0.0.35", SbomVersion |-> "3"]

\* Versions a document persisted by an older build carries.
StaleVersion == "0.0.34"
StaleSbomVersion == "2"

\* ------------------------------------------------------------ the image
\* An image is its ordered layers; layer i of the manifest and diff-id i of
\* the config are index-aligned.
TheImage ==
    << [Digest |-> "sha256:d0", DiffID |-> "sha256:f0"],
       [Digest |-> "sha256:d1", DiffID |-> "sha256:f1"] >>

\* The images createLayerMapping is exercised on: up to MaxLayers layers over
\* a few hashes. A digest names one compressed blob, so layers of equal digest
\* have equal diff-ids; a blob that occurs twice (the empty layer of images
\* converted from the v1 format, a step repeated verbatim) gives two layers
\* of equal digest and diff-id.
LayerDigests == {"sha256:d0", "sha256:d1", "sha256:d2"}
LayerDiffIds == {"sha256:f0", "sha256:f1"}
Images ==
    { im \in SeqsUpTo([Digest : LayerDigests, DiffID : LayerDiffIds], MaxLayers) :
        \A i, j \in DOMAIN im : im[i].Digest = im[j].Digest => im[i].DiffID = im[j].DiffID }

NoLayerMapping ==
    [ByDiffId |-> <<>>, ByDigest |-> <<>>, DiffIdByOrdinal |-> <<>>,
     DigestByOrdinal |-> <<>>, OrdinalByDiffId |-> <<>>, built |-> FALSE]

\* The map a Go loop builds by assigning m[key(i)] = val(i) for i = 0..n-1:
\* a later assignment to the same key overwrites an earlier one.
RECURSIVE AssignAll(_, _, _, _)
AssignAll(m, key, val, n) ==
    IF n = 0 THEN m
    ELSE LET prev == AssignAll(m, key, val, n - 1)
             k == key[n]
         IN [x \in (DOMAIN prev) \cup {k} |-> IF x = k THEN val[n] ELSE prev[x]]

\* createLayerMapping with line 198 storing the position counted from one.
createLayerMappingFromOne(img) ==
    LET n == Len(img)
        diffIds == [i \in 1..n |-> img[i].DiffID]
        digests == [i \in 1..n |-> img[i].Digest]
        ords == [i \in 1..n |-> i - 1]
        positions == [i \in 1..n |-> i]
    IN [ByDiffId        |-> AssignAll(<<>>, diffIds, digests, n),
        ByDigest        |-> AssignAll(<<>>, digests, diffIds, n),
        OrdinalByDiffId |-> AssignAll(<<>>, diffIds, positions, n),
        DiffIdByOrdinal |-> AssignAll(<<>>, ords, diffIds, n),
        DigestByOrdinal |-> AssignAll(<<>>, ords, digests, n),
        built           |-> TRUE]

\* createLayerMapping: ordinals are the Go indices 0..n-1.
createLayerMapping(img) ==
    LET n == Len(img)
        diffIds == [i \in 1..n |-> img[i].DiffID]
        digests == [i \in 1..n |-> img[i].Digest]
        ords == [i \in 1..n |-> i - 1]
    IN [ByDiffId        |-> AssignAll(<<>>, diffIds, digests, n),
        ByDigest        |-> AssignAll(<<>>, digests, diffIds, n),
        OrdinalByDiffId |-> AssignAll(<<>>, diffIds, ords, n),
        DiffIdByOrdinal |-> AssignAll(<<>>, ords, diffIds, n),
        DigestByOrdinal |-> AssignAll(<<>>, ords, digests, n),
        built           |-> TRUE]

\* ------------------------------------------------------------- packages
\* A package record as an engine emits it: the layer it was found in is a
\* diff-id, the ordinal is not resolved yet (-1).
RawPackage(n, v, ref, engine) ==
    [Name |-> n, Version |-> v, Type |-> "deb", LayerRef |-> ref,
     Ordinal |-> -1, FoundBy |-> engine]

\* What an engine can find in TheImage; the last one refers to a layer the
\* image does not have.
EnginePackages(engine) ==
    { RawPackage("bash", "5.1", "sha256:f0", engine),
      RawPackage("curl", "7.0", "sha256:f1", engine),
      RawPackage("zlib", "1.2", "sha256:ff", engine) }

NoDistro == ""
Distros == {NoDistro, "debian"}

\* types.IndexResult as an engine delivers it: packages and distro, or an
\* error and no packages.
EngineResults(engine) ==
    { [Packages |-> ps, Distro |-> d, Error |-> Nil] :
        ps \in SeqsUpTo(EnginePackages(engine), MaxPkgs), d \in Distros }
    \cup { [Packages |-> <<>>, Distro |-> NoDistro,
            Error |-> Err(engine)] }

NoResult == [Packages |-> <<>>, Distro |-> NoDistro, Error |-> Nil]

PkgKey(p) == <<p.Name, p.Version, p.Type>>

\* types.NormalizePackages, against the layer mapping m: every record's
\* layer reference is resolved to its ordinal; one unresolvable reference
\* fails the whole list (nil list, NormalizationError).
Resolvable(p, m) == p.LayerRef \in DOMAIN m.OrdinalByDiffId

NormalizePackage(p, m) == [p EXCEPT !.Ordinal = m.OrdinalByDiffId[p.LayerRef]]

NormalizePackages(pkgs, m) ==
    IF \A i \in 1..Len(pkgs) : Resolvable(pkgs[i], m)
    THEN [Packages |-> [i \in 1..Len(pkgs) |-> NormalizePackage(pkgs[i], m)],
          Error |-> Nil]
    ELSE [Packages |-> <<>>, Error |-> Err("cannot resolve layer")]

\* Alphabetical order of the package names (strings carry no order in TLC);
\* a name has one version in EnginePackages, so name order is the order.
NameRank(n) == CASE n = "bash" -> 1 [] n = "curl" -> 2 [] OTHER -> 3

PkgBefore(p, q) == NameRank(p.Name) < NameRank(q.Name)

RECURSIVE InsertSorted(_, _)
InsertSorted(s, p) ==
    IF s = <<>> THEN <<p>>
    ELSE IF PkgBefore(p, Head(s)) THEN <<p>> \o s
    ELSE <<Head(s)>> \o InsertSorted(Tail(s), p)

RECURSIVE SortPackages(_)
SortPackages(s) ==
    IF s = <<>> THEN <<>> ELSE InsertSorted(SortPackages(Tail(s)), Head(s))

\* Keeps the first record of every (name, version, type).
RECURSIVE Dedup(_, _)
Dedup(s, seen) ==
    IF s = <<>> THEN <<>>
    ELSE IF PkgKey(Head(s)) \in seen THEN Dedup(Tail(s), seen)
    ELSE <<Head(s)>> \o Dedup(Tail(s), seen \cup {PkgKey(Head(s))})

\* types.MergePackages(first, second): one record per (name, version, type),
\* the first argument's record winning a tie, ordered by name.
MergePackages(first, second) ==
    SortPackages(Dedup(first.Packages \o second.Packages, {}))

\* ------------------------------------------------------ image references
ImageNames == {"", "repo/image:latest", "repo/image@sha256:abc", "Repo/Image:bad ref"}

\* Lines 130-133 with the error of name.ParseReference dropped: whatever the
\* name, a reference comes back.
ParseReferenceUnchecked(n) ==
    [ok |-> TRUE, Context |-> "index.docker.io/repo/image", Identifier |-> "latest"]

\* name.ParseReference(imageName): ok, ref.Context().String() and
\* ref.Identifier().
ParseReference(n) ==
    CASE n = "repo/image:latest" ->
           [ok |-> TRUE, Context |-> "index.docker.io/repo/image", Identifier |-> "latest"]
      [] n = "repo/image@sha256:abc" ->
           [ok |-> TRUE, Context |-> "index.docker.io/repo/image", Identifier |-> "sha256:abc"]
      [] OTHER ->
           [ok |-> FALSE, Context |-> "", Identifier |-> ""]

\* Line 135 with the test of the prefix left out: every identifier is taken
\* for a tag.
HasSha256PrefixNever(id) == FALSE

\* strings.HasPrefix(identifier, "sha256:")
HasSha256Prefix(id) == id = "sha256:abc"

\* ------------------------------------------------------------- documents
ZeroSbom ==
    [Artifacts |-> <<>>,
     Source |-> [Type |-> "", Name |-> "", Tags |-> Nil, Distro |-> NoDistro],
     Descriptor |-> [Name |-> "", Version |-> "", SbomVersion |-> ""],
     Vulnerabilities |-> <<>>]

\* A document some earlier run persisted, stamped (v, sv).
PersistedSbom(v, sv) ==
    [Artifacts |-> <<[RawPackage("bash", "5.1", "sha256:f0", "syft") EXCEPT !.Ordinal = 0]>>,
     Source |-> [Type |-> "image", Name |-> "index.docker.io/repo/image",
                 Tags |-> Ptr(<<"latest">>), Distro |-> "debian"],
     Descriptor |-> [Name |-> "docker index", Version |-> v, SbomVersion |-> sv],
     Vulnerabilities |-> <<>>]

\* The JSON text of a document is its members in the order of the struct's
\* fields, each a pair of key and value.
JsonFields == <<"Artifacts", "Source", "Descriptor", "Vulnerabilities">>
\* Line 171 as it would encode a document whose Artifacts field is kept out
\* of the JSON.
EncodeWithoutArtifacts(sbom) ==
    [i \in 1..(Len(JsonFields) - 1) |-> <<JsonFields[i + 1], sbom[JsonFields[i + 1]]>>]

\* Line 171: json.MarshalIndent(sbom, "", "  ")
Encode(sbom) == [i \in DOMAIN JsonFields |-> <<JsonFields[i], sbom[JsonFields[i]]>>]

\* The value decoding leaves in a field: the member of that key if the text
\* has one, the field's zero value otherwise.
Member(members, key) ==
    IF \E i \in DOMAIN members : members[i][1] = key
    THEN members[CHOOSE i \in DOMAIN members : members[i][1] = key][2]
    ELSE ZeroSbom[key]
Decode(members) ==
    [Artifacts |-> Member(members, "Artifacts"),
     Source |-> Member(members, "Source"),
     Descriptor |-> Member(members, "Descriptor"),
     Vulnerabilities |-> Member(members, "Vulnerabilities")]

\* The file <path>/sbom.json: absent; present but unreadable; present with
\* bytes that are not an Sbom in JSON; present with the JSON of a document.
AbsentFile == [stat |-> "absent", json |-> FALSE, doc |-> <<>>]
UnreadableFile == [stat |-> "unreadable", json |-> FALSE, doc |-> <<>>]
GarbageFile == [stat |-> "ok", json |-> FALSE, doc |-> <<>>]

\* json.MarshalIndent(sbom) written to the file.
Marshal(sbom) == [stat |-> "ok", json |-> TRUE, doc |-> Encode(sbom)]

CacheFiles ==
    {AbsentFile, UnreadableFile, GarbageFile}
    \cup { Marshal(PersistedSbom(v, sv)) :
             v \in {FromBuild.Version, StaleVersion},
             sv \in {FromBuild.SbomVersion, StaleSbomVersion} }

\* os.Stat(sbomPath): !os.IsNotExist(err)
StatNotIsNotExist(f) == f.stat # "absent"
\* os.ReadFile(sbomPath): err == nil
ReadFileOk(f) == f.stat = "ok"
\* json.Unmarshal(b, &sbom): err == nil, and the document decoded into the
\* zero-valued sbom of line 86.
UnmarshalOk(f) == f.json
Unmarshal(f) == Decode(f.doc)

\* Lines 83-90 without the comparison of Descriptor.Version.
cacheHitSbomVersionOnly(nc, f) ==
    /\ ~nc
    /\ StatNotIsNotExist(f)
    /\ ReadFileOk(f)
    /\ UnmarshalOk(f)
    /\ Unmarshal(f).Descriptor.SbomVersion = FromBuild.SbomVersion

\* Lines 83-90: the conditions under which indexImage returns the persisted
\* document.
cacheHit(nc, f) ==
    /\ ~nc
    /\ StatNotIsNotExist(f)
    /\ ReadFileOk(f)
    /\ UnmarshalOk(f)
    /\ Unmarshal(f).Descriptor.SbomVersion = FromBuild.SbomVersion
    /\ Unmarshal(f).Descriptor.Version = FromBuild.Version

\* Line 118 with the two arguments in the other order.
mergedPackagesSwapped(sr, tr) == MergePackages(tr, sr)

\* Line 118, as a slip would write it: the syft result in both positions.
mergedPackagesSyftOnly(sr, tr) == MergePackages(sr, sr)

\* Line 118: packages := types.MergePackages(syftResult, trivyResult)
mergedPackages(sr, tr) == MergePackages(sr, tr)

\* Lines 111-169 given the two received results and the layer mapping m:
\* the error of the trivy normalization is overwritten by the syft one
\* (line 113 assigns the same err), so only the latter is tested.
\* doc is the document handed to the cache write, if one is assembled.
assemble(name, tr, sr, m) ==
    LET nt == NormalizePackages(tr.Packages, m)
        ns == NormalizePackages(sr.Packages, m)
        trN == [tr EXCEPT !.Packages = nt.Packages]
        srN == [sr EXCEPT !.Packages = ns.Packages]
        err == ns.Error
        packages == mergedPackages(srN, trN)
        ref == ParseReference(name)
        tag == IF name # "" /\ ~HasSha256Prefix(ref.Identifier)
               THEN <<ref.Identifier>> ELSE <<>>
        sbom == [Artifacts |-> packages,
                 Source |-> [Type |-> "image",
                             Name |-> IF name # "" THEN ref.Context ELSE name,
                             Tags |-> IF Len(tag) > 0 THEN Ptr(tag) ELSE Nil,
                             Distro |-> srN.Distro],
                 Descriptor |-> [Name |-> "docker index",
                                 Version |-> FromBuild.Version,
                                 SbomVersion |-> FromBuild.SbomVersion],
                 Vulnerabilities |-> <<>>]
    IN IF ~IsNil(err)
       THEN [Sbom |-> Nil, Image |-> Nil,
             Error |-> Wrapf(err, "failed to normalize packagess: %s", name), doc |-> Nil]
       ELSE IF name # "" /\ ~ref.ok
       THEN [Sbom |-> Nil, Image |-> Nil,
             Error |-> Wrapf(Err("could not parse reference"),
                            "failed to parse reference: %s", name),
             doc |-> Nil]
       ELSE [Sbom |-> Ptr(sbom), Image |-> Ptr("img"), Error |-> Nil, doc |-> Ptr(sbom)]

\* Lines 171-174 with the write left out.
writeCacheNever(f, doc, wr) == f

\* Lines 171-174: the cache write is best effort; wr says whether
\* MarshalIndent and WriteFile succeed.
writeCache(f, doc, wr) == IF ~IsNil(doc) /\ wr THEN Marshal(Deref(doc)) ELSE f

\* ------------------------------------------------------------ the state
VARIABLES
    pc,           \* where the caller's goroutine is in IndexImage/IndexPath/indexImage
    noCache,      \* ATOMIST_NO_CACHE is set in the environment
    file,         \* the file <path>/sbom.json
    imageName,    \* the name argument
    lm,           \* the layer mapping, once built
    trivyPc,      \* the trivySbom goroutine: "idle", "running", "sending", "done"
    syftPc,       \* the syftSbom goroutine
    trivyOut,     \* the result the trivy goroutine is sending
    syftOut,      \* the result the syft goroutine is sending
    trivyResult,  \* line 108
    syftResult,   \* line 109
    ret,          \* the returned (*Sbom, *Image, error)
    written,      \* the discarded outcome of the cache write: "none", "ok", "failed"
    tpc,          \* indexImageAsync goroutine t: its position
    tfile,        \* the sbom.json under the path of input t
    tsbom,        \* its local sbom
    timg,         \* its local img
    terr,         \* its local err
    resultChan,   \* the records the results channel holds
    chanCap,      \* the capacity the results channel was made with
    wg,           \* the wait group's counter
    panicked,     \* a goroutine panicked: the process is gone
    joined,       \* wg.Wait() has returned
    outcomes,     \* the records read from the channel after the join
    img,          \* the image whose layers are mapped
    calls,        \* runs on the path completed so far
    prevRun       \* what the run before the last returned and wrote

pipeVars == <<pc, noCache, file, imageName, lm, trivyPc, syftPc, trivyOut,
              syftOut, trivyResult, syftResult, ret, written>>
batchVars == <<tpc, tfile, tsbom, timg, terr, resultChan, chanCap, wg,
               panicked, joined, outcomes>>
seqVars == <<img, calls, prevRun>>
vars == <<pipeVars, batchVars, seqVars>>

NoReturn == [Sbom |-> Nil, Image |-> Nil, Error |-> Nil]

\* No run on the path yet.
NoRun == [ret |-> NoReturn, written |-> "none"]
SeqIdle == img = TheImage /\ calls = 0 /\ prevRun = NoRun

\* ------------------------------------------------- one call: IndexImage
PipeIdle ==
    /\ pc = "idle" /\ file = AbsentFile /\ imageName = ""
    /\ lm = NoLayerMapping /\ trivyPc = "idle" /\ syftPc = "idle"
    /\ trivyOut = NoResult /\ syftOut = NoResult
    /\ trivyResult = NoResult /\ syftResult = NoResult /\ ret = NoReturn
    /\ written = "none"

PipeInit ==
    /\ pc = "start"
    /\ noCache \in BOOLEAN
    /\ file \in CacheFiles
    /\ imageName \in ImageNames
    /\ lm = NoLayerMapping
    /\ trivyPc = "idle" /\ syftPc = "idle"
    /\ trivyOut = NoResult /\ syftOut = NoResult
    /\ trivyResult = NoResult /\ syftResult = NoResult
    /\ ret = NoReturn
    /\ written = "none"

\* Lines 70-78: registry.SaveImage fails, or indexImage is entered.
IndexImage ==
    /\ pc = "start"
    /\ \E ok \in BOOLEAN :
         IF ok
         THEN pc' = "cache" /\ ret' = ret
         ELSE /\ pc' = "done"
              /\ ret' = [Sbom |-> Nil, Image |-> Nil,
                         Error |-> Wrap(Err("pull failed"), "failed to download image")]
    /\ UNCHANGED <<noCache, file, imageName, lm, trivyPc, syftPc, trivyOut,
                   syftOut, trivyResult, syftResult, written>>
    /\ UNCHANGED batchVars
    /\ UNCHANGED seqVars

\* Lines 60-68: registry.ReadImage fails, or indexImage is entered.
IndexPath ==
    /\ pc = "start"
    /\ \E ok \in BOOLEAN :
         IF ok
         THEN pc' = "cache" /\ ret' = ret
         ELSE /\ pc' = "done"
              /\ ret' = [Sbom |-> Nil, Image |-> Nil,
                         Error |-> Wrap(Err("no such path"), "failed to read image")]
    /\ UNCHANGED <<noCache, file, imageName, lm, trivyPc, syftPc, trivyOut,
                   syftOut, trivyResult, syftResult, written>>
    /\ UNCHANGED batchVars
    /\ UNCHANGED seqVars

\* Lines 82-97 with line 99 moved above the cache check: the layer mapping is
\* built before the persisted document is looked at.
LookupCacheAfterMapping ==
    /\ pc = "cache"
    /\ lm' = createLayerMapping(img)
    /\ IF cacheHit(noCache, file)
       THEN /\ pc' = "done"
            /\ ret' = [Sbom |-> Ptr(Unmarshal(file)), Image |-> Ptr("img"), Error |-> Nil]
       ELSE /\ pc' = "launch"
            /\ ret' = ret
    /\ UNCHANGED <<noCache, file, imageName, trivyPc, syftPc, trivyOut,
                   syftOut, trivyResult, syftResult, written>>
    /\ UNCHANGED batchVars
    /\ UNCHANGED seqVars

\* Lines 82-97: return the persisted document, or fall through.
LookupCache ==
    /\ pc = "cache"
    /\ IF cacheHit(noCache, file)
       THEN /\ pc' = "done"
            /\ ret' = [Sbom |-> Ptr(Unmarshal(file)), Image |-> Ptr("img"), Error |-> Nil]
       ELSE /\ pc' = "launch"
            /\ ret' = ret
    /\ UNCHANGED <<noCache, file, imageName, lm, trivyPc, syftPc, trivyOut,
                   syftOut, trivyResult, syftResult, written>>
    /\ UNCHANGED batchVars
    /\ UNCHANGED seqVars

\* Lines 99-106: the layer mapping, the two unbuffered channels, the two
\* goroutines.
Launch ==
    /\ pc = "launch"
    /\ lm' = createLayerMapping(img)
    /\ trivyPc' = "running"
    /\ syftPc' = "running"
    /\ pc' = "recvTrivy"
    /\ UNCHANGED <<noCache, file, imageName, trivyOut, syftOut, trivyResult,
                   syftResult, ret, written>>
    /\ UNCHANGED batchVars
    /\ UNCHANGED seqVars

\* go trivySbom(path, lm, trivyResultChan): the engine finishes with a
\* result and blocks in the send on its unbuffered channel.
trivySbom ==
    /\ trivyPc = "running"
    /\ \E r \in EngineResults("trivy") : trivyOut' = r
    /\ trivyPc' = "sending"
    /\ UNCHANGED <<pc, noCache, file, imageName, lm, syftPc, syftOut,
                   trivyResult, syftResult, ret, written>>
    /\ UNCHANGED batchVars
    /\ UNCHANGED seqVars

\* go syftSbom(path, lm, syftResultChan)
syftSbom ==
    /\ syftPc = "running"
    /\ \E r \in EngineResults("syft") : syftOut' = r
    /\ syftPc' = "sending"
    /\ UNCHANGED <<pc, noCache, file, imageName, lm, trivyPc, trivyOut,
                   trivyResult, syftResult, ret, written>>
    /\ UNCHANGED batchVars
    /\ UNCHANGED seqVars

\* Line 108 followed by a return on the error the trivy result carries:
\* indexImage fails at once, and the syft channel is never received from.
RecvTrivyFailFast ==
    /\ pc = "recvTrivy"
    /\ trivyPc = "sending"
    /\ trivyResult' = trivyOut
    /\ trivyPc' = "done"
    /\ IF IsNil(trivyOut.Error)
       THEN pc' = "recvSyft" /\ ret' = ret
       ELSE /\ pc' = "done"
            /\ ret' = [Sbom |-> Nil, Image |-> Nil,
                       Error |-> Wrap(trivyOut.Error, "failed to index image")]
    /\ UNCHANGED <<noCache, file, imageName, lm, syftPc, trivyOut, syftOut,
                   syftResult, written>>
    /\ UNCHANGED batchVars
    /\ UNCHANGED seqVars

\* Line 108: trivyResult := <-trivyResultChan, the rendezvous with the send.
RecvTrivy ==
    /\ pc = "recvTrivy"
    /\ trivyPc = "sending"
    /\ trivyResult' = trivyOut
    /\ trivyPc' = "done"
    /\ pc' = "recvSyft"
    /\ UNCHANGED <<noCache, file, imageName, lm, syftPc, trivyOut, syftOut,
                   syftResult, ret, written>>
    /\ UNCHANGED batchVars
    /\ UNCHANGED seqVars

\* Line 109 as a receive that does not block (select with a default): with
\* no send pending the zero IndexResult is taken.
RecvSyftNoWait ==
    /\ pc = "recvSyft"
    /\ IF syftPc = "sending"
       THEN syftResult' = syftOut /\ syftPc' = "done"
       ELSE syftResult' = NoResult /\ syftPc' = syftPc
    /\ pc' = "normalize"
    /\ UNCHANGED <<noCache, file, imageName, lm, trivyPc, trivyOut, syftOut,
                   trivyResult, ret, written>>
    /\ UNCHANGED batchVars
    /\ UNCHANGED seqVars

\* Line 109: syftResult := <-syftResultChan
RecvSyft ==
    /\ pc = "recvSyft"
    /\ syftPc = "sending"
    /\ syftResult' = syftOut
    /\ syftPc' = "done"
    /\ pc' = "normalize"
    /\ UNCHANGED <<noCache, file, imageName, lm, trivyPc, trivyOut, syftOut,
                   trivyResult, ret, written>>
    /\ UNCHANGED batchVars
    /\ UNCHANGED seqVars

\* Lines 111-176 with the write of lines 171-174 placed above the parse of
\* the name (line 128): the merged packages are persisted, under the name as
\* given, before the reference is rejected.
AssembleWritesBeforeParse ==
    /\ pc = "normalize"
    /\ LET out == assemble(imageName, trivyResult, syftResult, lm)
           early == assemble("", trivyResult, syftResult, lm)
       IN /\ ret' = [Sbom |-> out.Sbom, Image |-> out.Image, Error |-> out.Error]
          /\ \E wr \in BOOLEAN :
               /\ file' = writeCache(file, early.doc, wr)
               /\ written' = IF IsNil(early.doc) THEN "none"
                              ELSE IF wr THEN "ok" ELSE "failed"
    /\ pc' = "done"
    /\ UNCHANGED <<noCache, imageName, lm, trivyPc, syftPc, trivyOut, syftOut,
                   trivyResult, syftResult>>
    /\ UNCHANGED batchVars
    /\ UNCHANGED seqVars

\* Lines 171-176 as they would read if the outcome of the write were
\* returned: a failed MarshalIndent or WriteFile fails the run.
AssembleWriteFatal ==
    /\ pc = "normalize"
    /\ LET out == assemble(imageName, trivyResult, syftResult, lm)
       IN \E wr \in BOOLEAN :
            /\ file' = writeCache(file, out.doc, wr)
            /\ written' = IF IsNil(out.doc) THEN "none"
                           ELSE IF wr THEN "ok" ELSE "failed"
            /\ ret' = IF ~IsNil(out.doc) /\ ~wr
                       THEN [Sbom |-> Nil, Image |-> Nil,
                             Error |-> Wrap(Err("write failed"), "failed to write sbom")]
                       ELSE [Sbom |-> out.Sbom, Image |-> out.Image, Error |-> out.Error]
    /\ pc' = "done"
    /\ UNCHANGED <<noCache, imageName, lm, trivyPc, syftPc, trivyOut, syftOut,
                   trivyResult, syftResult>>
    /\ UNCHANGED batchVars
    /\ UNCHANGED seqVars

\* Lines 111-176: normalize, merge, assemble, write the cache, return.
Assemble ==
    /\ pc = "normalize"
    /\ LET out == assemble(imageName, trivyResult, syftResult, lm)
       IN /\ ret' = [Sbom |-> out.Sbom, Image |-> out.Image, Error |-> out.Error]
          /\ \E wr \in BOOLEAN :
               /\ file' = writeCache(file, out.doc, wr)
               /\ written' = IF IsNil(out.doc) THEN "none"
                              ELSE IF wr THEN "ok" ELSE "failed"
    /\ pc' = "done"
    /\ UNCHANGED <<noCache, imageName, lm, trivyPc, syftPc, trivyOut, syftOut,
                   trivyResult, syftResult>>
    /\ UNCHANGED batchVars
    /\ UNCHANGED seqVars

Next ==
    \/ IndexImage
    \/ IndexPath
    \/ LookupCache
    \/ Launch
    \/ trivySbom
    \/ syftSbom
    \/ RecvTrivy
    \/ RecvSyft
    \/ Assemble

\* ------------------------------------------- the multi-image fan-out
Tasks == 1..NumImages

\* The image inputs of a run, by task.
Inputs == <<"repo/image:latest", "repo/image@sha256:abc", "Repo/Image:bad ref", "">>
Input(t) == Inputs[((t - 1) % Len(Inputs)) + 1]

\* What the engines deliver in a multi-image run.
BatchTrivyResults ==
    { r \in EngineResults("trivy") :
        \/ ~IsNil(r.Error)
        \/ r.Packages = <<RawPackage("bash", "5.1", "sha256:f0", "trivy")>> /\ r.Distro = NoDistro }
BatchSyftResults ==
    { r \in EngineResults("syft") :
        /\ Len(r.Packages) = 1 /\ r.Packages[1].Name # "bash" /\ r.Distro = "debian" }

\* One whole call of indexImage (lines 80-177) on the file f, the engines
\* delivering tr and sr.
indexImage(nc, f, name, tr, sr, wr) ==
    IF cacheHit(nc, f)
    THEN [Sbom |-> Ptr(Unmarshal(f)), Image |-> Ptr("img"), Error |-> Nil, file |-> f]
    ELSE LET out == assemble(name, tr, sr, createLayerMapping(TheImage))
         IN [Sbom |-> out.Sbom, Image |-> out.Image, Error |-> out.Error,
             file |-> writeCache(f, out.doc, wr)]

\* query.QueryCves(sbom, "", "", ""): the vulnerabilities, or an error.
Cves == <<"CVE-2022-0001">>

BatchIdle ==
    /\ tpc = [t \in Tasks |-> "idle"]
    /\ tfile = [t \in Tasks |-> AbsentFile]
    /\ tsbom = [t \in Tasks |-> Nil]
    /\ timg = [t \in Tasks |-> Nil]
    /\ terr = [t \in Tasks |-> Nil]
    /\ resultChan = <<>> /\ chanCap = 0 /\ wg = 0
    /\ panicked = FALSE /\ joined = FALSE /\ outcomes = <<>>

\* The caller has added NumImages to the wait group, made the results
\* channel and started one indexImageAsync goroutine per input.
BatchInit ==
    /\ noCache \in BOOLEAN
    /\ tpc = [t \in Tasks |-> "index"]
    /\ tfile \in [Tasks -> {AbsentFile, Marshal(PersistedSbom(FromBuild.Version, FromBuild.SbomVersion))}]
    /\ tsbom = [t \in Tasks |-> Nil]
    /\ timg = [t \in Tasks |-> Nil]
    /\ terr = [t \in Tasks |-> Nil]
    /\ resultChan = <<>>
    /\ chanCap \in 0..NumImages
    /\ wg = NumImages
    /\ panicked = FALSE
    /\ joined = FALSE
    /\ outcomes = <<>>

\* Line 47: sbom, img, err := IndexImage(image, client)
AsyncIndexImage(t) ==
    /\ ~panicked
    /\ tpc[t] = "index"
    /\ \E ok \in BOOLEAN, tr \in BatchTrivyResults, sr \in BatchSyftResults, wr \in BOOLEAN :
         LET r == IF ok
                  THEN indexImage(noCache, tfile[t], Input(t), tr, sr, wr)
                  ELSE [Sbom |-> Nil, Image |-> Nil,
                        Error |-> Wrap(Err("pull failed"), "failed to download image"),
                        file |-> tfile[t]]
         IN /\ tsbom' = [tsbom EXCEPT ![t] = r.Sbom]
            /\ timg' = [timg EXCEPT ![t] = r.Image]
            /\ terr' = [terr EXCEPT ![t] = r.Error]
            /\ tfile' = [tfile EXCEPT ![t] = r.file]
    /\ tpc' = [tpc EXCEPT ![t] = "query"]
    /\ UNCHANGED <<noCache, resultChan, chanCap, wg, panicked, joined, outcomes>>
    /\ UNCHANGED <<pc, file, imageName, lm, trivyPc, syftPc, trivyOut, syftOut,
                   trivyResult, syftResult, ret, written>>
    /\ UNCHANGED seqVars

\* Lines 48-51: cves, err := query.QueryCves(sbom, ...) assigns the same err;
\* on success the vulnerabilities are stored through sbom, which panics on
\* a nil sbom; the deferred wg.Done() runs as the panic unwinds, before the
\* runtime ends the process (Crash).
AsyncQueryCves(t) ==
    /\ ~panicked
    /\ tpc[t] = "query"
    /\ \E ok \in BOOLEAN :
         IF ~ok
         THEN /\ terr' = [terr EXCEPT ![t] = Err("failed to query cves")]
              /\ tpc' = [tpc EXCEPT ![t] = "send"]
              /\ UNCHANGED <<tsbom, wg, panicked>>
         ELSE IF IsNil(tsbom[t])
         THEN /\ terr' = [terr EXCEPT ![t] = Nil]
              /\ tpc' = [tpc EXCEPT ![t] = "panicked"]
              /\ wg' = wg - 1
              /\ UNCHANGED <<tsbom, panicked>>
         ELSE /\ terr' = [terr EXCEPT ![t] = Nil]
              /\ tsbom' = [tsbom EXCEPT ![t] = Ptr([Deref(tsbom[t]) EXCEPT !.Vulnerabilities = Cves])]
              /\ tpc' = [tpc EXCEPT ![t] = "send"]
              /\ UNCHANGED <<wg, panicked>>
    /\ UNCHANGED <<noCache, tfile, timg, resultChan, chanCap, joined, outcomes>>
    /\ UNCHANGED <<pc, file, imageName, lm, trivyPc, syftPc, trivyOut, syftOut,
                   trivyResult, syftResult, ret, written>>
    /\ UNCHANGED seqVars

\* Line 50, the unrecovered panic: once the deferred calls of the panicking
\* goroutine have run the runtime ends the process, and no goroutine takes
\* another step.
Crash ==
    /\ ~panicked
    /\ \E t \in Tasks : tpc[t] = "panicked"
    /\ panicked' = TRUE
    /\ UNCHANGED <<noCache, tpc, tfile, tsbom, timg, terr, resultChan, chanCap, wg, joined, outcomes>>
    /\ UNCHANGED <<pc, file, imageName, lm, trivyPc, syftPc, trivyOut, syftOut,
                   trivyResult, syftResult, ret, written>>
    /\ UNCHANGED seqVars

\* Lines 52-57: the send blocks while the channel is full; nothing receives
\* before the join.
AsyncSend(t) ==
    /\ ~panicked
    /\ tpc[t] = "send"
    /\ Len(resultChan) < chanCap
    /\ resultChan' = Append(resultChan,
                            [Input |-> Input(t), Image |-> timg[t],
                             Sbom |-> tsbom[t], Error |-> terr[t]])
    /\ tpc' = [tpc EXCEPT ![t] = "exit"]
    /\ UNCHANGED <<noCache, tfile, tsbom, timg, terr, chanCap, wg, panicked, joined, outcomes>>
    /\ UNCHANGED <<pc, file, imageName, lm, trivyPc, syftPc, trivyOut, syftOut,
                   trivyResult, syftResult, ret, written>>
    /\ UNCHANGED seqVars

\* Line 46: defer wg.Done()
AsyncDone(t) ==
    /\ ~panicked
    /\ tpc[t] = "exit"
    /\ wg' = wg - 1
    /\ tpc' = [tpc EXCEPT ![t] = "done"]
    /\ UNCHANGED <<noCache, tfile, tsbom, timg, terr, resultChan, chanCap, panicked, joined, outcomes>>
    /\ UNCHANGED <<pc, file, imageName, lm, trivyPc, syftPc, trivyOut, syftOut,
                   trivyResult, syftResult, ret, written>>
    /\ UNCHANGED seqVars

\* The caller's wg.Wait() returns.
Join ==
    /\ ~panicked
    /\ ~joined
    /\ wg = 0
    /\ joined' = TRUE
    /\ UNCHANGED <<noCache, tpc, tfile, tsbom, timg, terr, resultChan, chanCap, wg, panicked, outcomes>>
    /\ UNCHANGED <<pc, file, imageName, lm, trivyPc, syftPc, trivyOut, syftOut,
                   trivyResult, syftResult, ret, written>>
    /\ UNCHANGED seqVars

\* The caller reads a record, after the join.
Collect ==
    /\ ~panicked
    /\ joined
    /\ resultChan # <<>>
    /\ outcomes' = Append(outcomes, Head(resultChan))
    /\ resultChan' = Tail(resultChan)
    /\ UNCHANGED <<noCache, tpc, tfile, tsbom, timg, terr, chanCap, wg, panicked, joined>>
    /\ UNCHANGED <<pc, file, imageName, lm, trivyPc, syftPc, trivyOut, syftOut,
                   trivyResult, syftResult, ret, written>>
    /\ UNCHANGED seqVars

NextBatch ==
    \/ \E t \in Tasks : AsyncIndexImage(t)
    \/ \E t \in Tasks : AsyncQueryCves(t)
    \/ \E t \in Tasks : AsyncSend(t)
    \/ \E t \in Tasks : AsyncDone(t)
    \/ Crash
    \/ Join
    \/ Collect

\* ------------------------------------------ successive runs on one path
\* What the engines deliver in the runs of a sequence.
CallTrivyResults == BatchTrivyResults
CallSyftResults == BatchSyftResults

\* One whole run of IndexPath (lines 60-68, indexImage inside) on the path,
\* in a process whose environment has ATOMIST_NO_CACHE set or not (nc); the
\* pipeline variables are left as the run's steps leave them.
CallIndexPath ==
    /\ pc \in {"start", "done"}
    /\ calls < MaxCalls
    /\ \E nc \in BOOLEAN, ok \in BOOLEAN, tr \in CallTrivyResults,
          sr \in CallSyftResults, wr \in BOOLEAN :
         LET hit == cacheHit(nc, file)
             ran == ok /\ ~hit
             r == IF ok
                  THEN indexImage(nc, file, imageName, tr, sr, wr)
                  ELSE [Sbom |-> Nil, Image |-> Nil,
                        Error |-> Wrap(Err("no such path"), "failed to read image"),
                        file |-> file]
         IN /\ noCache' = nc
            /\ ret' = [Sbom |-> r.Sbom, Image |-> r.Image, Error |-> r.Error]
            /\ file' = r.file
            /\ written' = IF ~ran \/ IsNil(r.Sbom) THEN "none"
                           ELSE IF wr THEN "ok" ELSE "failed"
            /\ lm' = IF ran THEN createLayerMapping(img) ELSE NoLayerMapping
            /\ trivyPc' = IF ran THEN "done" ELSE "idle"
            /\ syftPc' = IF ran THEN "done" ELSE "idle"
            /\ trivyOut' = IF ran THEN tr ELSE NoResult
            /\ syftOut' = IF ran THEN sr ELSE NoResult
            /\ trivyResult' = IF ran THEN tr ELSE NoResult
            /\ syftResult' = IF ran THEN sr ELSE NoResult
    /\ prevRun' = [ret |-> ret, written |-> written]
    /\ calls' = calls + 1
    /\ pc' = "done"
    /\ UNCHANGED <<imageName, img>>
    /\ UNCHANGED batchVars

NextCalls == CallIndexPath

\* ------------------------------------------------- the layer mapping alone
LayersInit ==
    /\ pc = "layers" /\ img \in Images /\ lm = NoLayerMapping
    /\ noCache = FALSE /\ file = AbsentFile /\ imageName = ""
    /\ trivyPc = "idle" /\ syftPc = "idle"
    /\ trivyOut = NoResult /\ syftOut = NoResult
    /\ trivyResult = NoResult /\ syftResult = NoResult /\ ret = NoReturn
    /\ written = "none" /\ calls = 0 /\ prevRun = NoRun

\* Line 99: lm := createLayerMapping(img)
CreateLayerMapping ==
    /\ pc = "layers"
    /\ lm' = createLayerMapping(img)
    /\ pc' = "mapped"
    /\ UNCHANGED <<noCache, file, imageName, trivyPc, syftPc, trivyOut, syftOut,
                   trivyResult, syftResult, ret, written>>
    /\ UNCHANGED batchVars
    /\ UNCHANGED seqVars

NextLayers == CreateLayerMapping

\* ---------------------------------------------------- specifications
Init == PipeInit /\ BatchIdle /\ SeqIdle
Spec == Init /\ [][Next]_vars

InitBatch == BatchInit /\ PipeIdle /\ SeqIdle
SpecBatch == InitBatch /\ [][NextBatch]_vars

SpecCalls == Init /\ [][NextCalls]_vars

InitLayers == LayersInit /\ BatchIdle
SpecLayers == InitLayers /\ [][NextLayers]_vars

\* The engines' goroutines run, and a receive whose sender is ready is taken.
FairSpec ==
    /\ Spec
    /\ WF_vars(IndexImage \/ IndexPath)
    /\ WF_vars(LookupCache) /\ WF_vars(Launch)
    /\ WF_vars(trivySbom) /\ WF_vars(syftSbom)
    /\ WF_vars(RecvTrivy) /\ WF_vars(RecvSyft) /\ WF_vars(Assemble)

\* ------------------------------------------------------------ the claims
\* indexImage has returned from line 92.
HitReturned == pc = "done" /\ trivyPc = "idle" /\ ~IsNil(ret.Sbom)
\* indexImage has fallen through the cache block and has not written yet.
MissTaken == pc \in {"launch", "recvTrivy", "recvSyft", "normalize"}
\* indexImage has returned from line 115, 132 or 176.
Computed == pc = "done" /\ trivyPc = "done" /\ syftPc = "done"

\* The file holds a document that parses and carries the build's versions.
PersistedValid(f) ==
    /\ f.stat = "ok"
    /\ f.json
    /\ Unmarshal(f).Descriptor.Version = FromBuild.Version
    /\ Unmarshal(f).Descriptor.SbomVersion = FromBuild.SbomVersion

\* C1: indexImage returns the persisted document exactly when the file
\* exists, reads, parses, carries the build's Version and SbomVersion and
\* ATOMIST_NO_CACHE is unset; in every other case it goes on to compute.
C1_CacheHitIff ==
    /\ HitReturned => /\ PersistedValid(file) /\ ~noCache
                      /\ ret = [Sbom |-> Ptr(Unmarshal(file)), Image |-> Ptr("img"), Error |-> Nil]
    /\ MissTaken => ~(PersistedValid(file) /\ ~noCache)

C1_Witness == HitReturned /\ PersistedValid(file) /\ ~noCache

\* The records delivered to the results channel so far.
Delivered == Range(resultChan) \cup Range(outcomes)

\* C2: every task delivers exactly one record: a task whose IndexImage
\* failed still reaches its send and takes nobody down with it, a task past
\* its send has exactly one record in the channel or the outcome set, and a
\* record carries an error or an Sbom.
C2_EveryTaskDelivers ==
    /\ \A t \in Tasks : tpc[t] # "index" /\ IsNil(tsbom[t]) => tpc[t] # "panicked"
    /\ ~panicked
    /\ \A t \in Tasks :
         tpc[t] \in {"exit", "done"} =>
           Cardinality({i \in 1..Len(resultChan) : resultChan[i].Input = Input(t)})
           + Cardinality({i \in 1..Len(outcomes) : outcomes[i].Input = Input(t)}) = 1
    /\ \A r \in Delivered : ~IsNil(r.Error) \/ ~IsNil(r.Sbom)

\* An error IndexImage returns: its outermost link is one of lines 74, 115, 132.
IsPipelineError(e) ==
    /\ ~IsNil(e)
    /\ e[1][1] \in {"failed to download image", "failed to normalize packagess: %s",
                    "failed to parse reference: %s"}

\* C3: the record of an input whose pipeline failed (no Sbom) carries the
\* pipeline's error.
C3_PipelineErrorKept ==
    \A r \in Delivered : IsNil(r.Sbom) => IsPipelineError(r.Error)

\* C4: a record whose Sbom went without vulnerability data (the lookup
\* failed) carries the Sbom and no error.
C4_EnrichmentNonFatal ==
    \A r \in Delivered :
        ~IsNil(r.Sbom) /\ Deref(r.Sbom).Vulnerabilities = <<>> => IsNil(r.Error)

\* C5: in every delivered record exactly one of Sbom and Error is non-nil.
C5_NilOrError ==
    \A r \in Delivered : IsNil(r.Sbom) # IsNil(r.Error)

\* Normalizing the received list fails.
NormalizationFails(r) == \E i \in 1..Len(r.Packages) : ~Resolvable(r.Packages[i], lm)

\* C6: when the normalization of the trivy list or of the syft list fails,
\* indexImage returns a nil Sbom and an error and writes no cache file.
C6_NormalizationFailureFatal ==
    Computed /\ (NormalizationFails(trivyResult) \/ NormalizationFails(syftResult))
        => IsNil(ret.Sbom) /\ ~IsNil(ret.Error) /\ written = "none"

\* C7: on a miss both engines are started together, indexImage goes past
\* line 109 only with both results received, whatever they carry, and no
\* interleaving leaves it stuck in a receive.
C7_JoinsBothEngines ==
    /\ pc = "recvTrivy" => trivyPc # "idle" /\ syftPc # "idle"
    /\ pc = "normalize" \/ (pc = "done" /\ lm.built) =>
         /\ trivyPc = "done" /\ syftPc = "done"
         /\ trivyResult = trivyOut /\ syftResult = syftOut
    /\ pc \in {"recvTrivy", "recvSyft"} => ENABLED Next

C7_Witness ==
    /\ pc = "normalize"
    /\ ~IsNil(trivyResult.Error)
    /\ syftResult.Packages # <<>>

\* C7, the progress half: under FairSpec every miss gets both results.
C7_BothReceivesComplete == (pc = "launch") ~> (pc = "normalize")

\* Exactly one engine failed and the other one delivered packages.
OneEngineFailed ==
    \/ ~IsNil(trivyResult.Error) /\ IsNil(syftResult.Error) /\ syftResult.Packages # <<>>
    \/ ~IsNil(syftResult.Error) /\ IsNil(trivyResult.Error) /\ trivyResult.Packages # <<>>
Survivor == IF IsNil(trivyResult.Error) THEN trivyResult ELSE syftResult

\* The artifacts are the packages ps, normalized, one per (name, version, type).
ExactlyNormalized(artifacts, ps) ==
    /\ Range(artifacts) = {NormalizePackage(ps[i], lm) : i \in 1..Len(ps)}
    /\ \A i, j \in 1..Len(artifacts) : i # j => PkgKey(artifacts[i]) # PkgKey(artifacts[j])

\* C8 as stated: with exactly one engine failed, indexImage returns no error
\* and the Artifacts are the other engine's packages.
C8_EngineFailureTolerated ==
    Computed /\ OneEngineFailed =>
        /\ IsNil(ret.Error)
        /\ ~IsNil(ret.Sbom)
        /\ ExactlyNormalized(Deref(ret.Sbom).Artifacts, Survivor.Packages)

\* C8 amended: the same, for a surviving list that normalizes and a name
\* that is empty or parses.
C8_EngineFailureToleratedAmended ==
    Computed /\ OneEngineFailed /\ ~NormalizationFails(Survivor)
             /\ (imageName = "" \/ ParseReference(imageName).ok) =>
        /\ IsNil(ret.Error)
        /\ ~IsNil(ret.Sbom)
        /\ ExactlyNormalized(Deref(ret.Sbom).Artifacts, Survivor.Packages)

C8_Witness ==
    /\ Computed
    /\ ~IsNil(trivyResult.Error)
    /\ Len(syftResult.Packages) = 2
    /\ syftResult.Packages[1] # syftResult.Packages[2]
    /\ ~IsNil(ret.Sbom)
    /\ Len(Deref(ret.Sbom).Artifacts) = 2

\* C9: a hit returns the persisted document as it is and runs nothing else:
\* the step that returns it leaves the file, the layer mapping and the
\* engines alone, and so does every state it ends in.
C9_HitSkipsCompute ==
    /\ [](HitReturned => /\ ret.Sbom = Ptr(Unmarshal(file))
                         /\ ~lm.built
                         /\ trivyPc = "idle" /\ syftPc = "idle"
                         /\ trivyResult = NoResult /\ syftResult = NoResult
                         /\ written = "none")
    /\ [][pc = "cache" => file' = file /\ lm' = lm /\ trivyPc' = trivyPc /\ syftPc' = syftPc]_vars

C9_Witness == HitReturned /\ Unmarshal(file).Artifacts # <<>>

\* The file holds the returned document, stamped by this build.
FileHoldsReturned ==
    /\ file = Marshal(Deref(ret.Sbom))
    /\ Unmarshal(file).Descriptor.Version = FromBuild.Version
    /\ Unmarshal(file).Descriptor.SbomVersion = FromBuild.SbomVersion

AcquisitionFailed ==
    /\ pc = "done" /\ ~IsNil(ret.Error)
    /\ ret.Error[1][1] \in {"failed to download image", "failed to read image"}

\* The run before the last one assembled a document and persisted it.
PrevPersisted == prevRun.written = "ok" /\ ~IsNil(prevRun.ret.Sbom)

C12_WriteFailureNonFatal ==
    LET out == assemble(imageName, trivyResult, syftResult, lm)
    IN /\ (Computed /\ written = "failed")
            => /\ IsNil(ret.Error) /\ ~IsNil(ret.Sbom)
               /\ ret = [Sbom |-> out.Sbom, Image |-> out.Image, Error |-> Nil]
       /\ (Computed /\ written = "ok")
            => ret = [Sbom |-> out.Sbom, Image |-> out.Image, Error |-> Nil]

C12_Witness ==
    /\ Computed /\ written = "failed"
    /\ ~IsNil(ret.Sbom) /\ Deref(ret.Sbom).Artifacts # <<>>
    /\ file # Marshal(Deref(ret.Sbom))

\* The name is not empty and is no reference: upper case in the repository,
\* a blank in the tag.
Unparsable(n) == n = "Repo/Image:bad ref"
IsParseError(e) == ~IsNil(e) /\ e[1][1] = "failed to parse reference: %s"
\* indexImage was entered and has returned.
Returned == pc = "done" /\ ~AcquisitionFailed

Ordinals == 0..(Len(img) - 1)
\* The ordered list of (ordinal, diff-id, digest) triples of the image.
Triples == [i \in Ordinals |-> [DiffID |-> img[i + 1].DiffID, Digest |-> img[i + 1].Digest]]

Bidirectional ==
    /\ \A i \in Ordinals :
         /\ lm.DiffIdByOrdinal[i] = Triples[i].DiffID
         /\ lm.DigestByOrdinal[i] = Triples[i].Digest
         /\ lm.ByDigest[lm.DigestByOrdinal[i]] = lm.DiffIdByOrdinal[i]
         /\ lm.OrdinalByDiffId[lm.DiffIdByOrdinal[i]] = i
         /\ lm.ByDiffId[lm.DiffIdByOrdinal[i]] = lm.DigestByOrdinal[i]
    /\ Cardinality(DOMAIN lm.ByDiffId) = Len(img)
    /\ Cardinality(DOMAIN lm.ByDigest) = Len(img)
    /\ Cardinality(DOMAIN lm.OrdinalByDiffId) = Len(img)
    /\ Cardinality(DOMAIN lm.DiffIdByOrdinal) = Len(img)
    /\ Cardinality(DOMAIN lm.DigestByOrdinal) = Len(img)

\* C14 as stated: the mapping createLayerMapping builds from any image with
\* index-aligned digests and diff-ids is bidirectional at every ordinal
\* (digest to diff-id, diff-id to ordinal, diff-id to digest agree with the
\* two by-ordinal maps), and each of the five maps has one entry per layer.
C14_LayerMappingBidirectional == pc = "mapped" => Bidirectional

\* No two layers of the image share a diff-id or a digest.
DistinctLayers ==
    \A i, j \in DOMAIN img :
        i # j => img[i].DiffID # img[j].DiffID /\ img[i].Digest # img[j].Digest

\* C14 amended: the mapping is bidirectional, and every map has one entry
\* per layer, for the images whose layers have pairwise distinct diff-ids
\* and pairwise distinct digests; for every image the two by-ordinal maps
\* list the layers in order and the hash-keyed maps hold the entry of the
\* last layer carrying the hash.
C14_DistinctLayersBidirectional ==
    /\ (pc = "mapped" /\ DistinctLayers) => Bidirectional
    /\ pc = "mapped" =>
         /\ \A i \in Ordinals : /\ lm.DiffIdByOrdinal[i] = Triples[i].DiffID
                                 /\ lm.DigestByOrdinal[i] = Triples[i].Digest
         /\ Cardinality(DOMAIN lm.DiffIdByOrdinal) = Len(img)
         /\ Cardinality(DOMAIN lm.DigestByOrdinal) = Len(img)
         /\ \A i \in Ordinals :
              (\A j \in Ordinals : j > i => Triples[j].DiffID # Triples[i].DiffID)
                  => /\ lm.OrdinalByDiffId[Triples[i].DiffID] = i
                     /\ lm.ByDiffId[Triples[i].DiffID] = Triples[i].Digest

C14_Witness == pc = "mapped" /\ DistinctLayers /\ Len(img) = 2 /\ Bidirectional

\* The distro identifications the two received results carry.
DistrosCarried == {trivyResult.Distro, syftResult.Distro} \ {NoDistro}

\* C15: when either engine's result carries a distro, the assembled
\* document's Source carries one of them, the trivy one when the syft result
\* has none.
C15_DistroCarriedThrough ==
    (Computed /\ ~IsNil(ret.Sbom) /\ DistrosCarried # {})
        => Deref(ret.Sbom).Source.Distro \in DistrosCarried

\* The keys of the packages of a list.
Keys(ps) == {PkgKey(ps[i]) : i \in 1..Len(ps)}
\* The first record of the list with the key.
FirstOf(ps, k) == ps[CHOOSE i \in 1..Len(ps) :
                       PkgKey(ps[i]) = k /\ \A j \in 1..(i - 1) : PkgKey(ps[j]) # k]
\* What the trivy engine sent, as far as it reaches the merge: a list with
\* an unresolvable record is dropped whole (line 112, see C6).
TrivySent ==
    IF \A i \in 1..Len(trivyOut.Packages) : Resolvable(trivyOut.Packages[i], lm)
    THEN trivyOut.Packages ELSE <<>>

\* C16: the document assembled on a miss is determined by what the two
\* engines sent (and the name), whichever engine finished first: the trivy
\* variable holds what the trivy engine sent and the syft variable what the
\* syft engine sent; the Artifacts hold one record per key either engine
\* reported, the syft engine's where both reported it, in name order; the
\* Source is that of the name with the syft engine's distro.
C16_Deterministic ==
    (Computed /\ ~IsNil(ret.Sbom)) =>
        LET arts == Deref(ret.Sbom).Artifacts
            src == Deref(ret.Sbom).Source
            S == syftOut.Packages
            T == TrivySent
        IN /\ trivyResult = trivyOut /\ syftResult = syftOut
           /\ {PkgKey(arts[i]) : i \in 1..Len(arts)} = Keys(S) \cup Keys(T)
           /\ Len(arts) = Cardinality(Keys(S) \cup Keys(T))
           /\ \A i \in 1..Len(arts) :
                LET k == PkgKey(arts[i])
                IN arts[i] = NormalizePackage(IF k \in Keys(S) THEN FirstOf(S, k)
                                              ELSE FirstOf(T, k), lm)
           /\ \A i \in 1..(Len(arts) - 1) : PkgBefore(arts[i], arts[i + 1])
           /\ src.Type = "image" /\ src.Distro = syftOut.Distro
           /\ src.Name = (IF imageName = "" THEN "" ELSE "index.docker.io/repo/image")
           /\ src.Tags = (IF imageName = "repo/image:latest" THEN Ptr(<<"latest">>) ELSE Nil)

\* Both engines reported one package, and each reported one of its own.
C16_Witness ==
    /\ Computed /\ ~IsNil(ret.Sbom)
    /\ Keys(syftOut.Packages) \cap Keys(TrivySent) # {}
    /\ Len(Deref(ret.Sbom).Artifacts) = 2
    /\ \E i \in 1..2 : Deref(ret.Sbom).Artifacts[i].FoundBy = "trivy"

\* The names that are references, with the repository each names (registry
\* and path, as Context().String() prints it) and the tag it ends in, if it
\* ends in a tag and not in a digest.
References == {"repo/image:latest", "repo/image@sha256:abc"}
RepositoryOf(n) == "index.docker.io/repo/image"
TagsOf(n) == IF n = "repo/image:latest" THEN <<"latest">> ELSE <<>>

Signalled == {t \in Tasks : tpc[t] \in {"done", "panicked"}}
RecordOf(t) == {r \in Delivered : r.Input = Input(t)}

\* C18: a task signals the wait group only after the channel accepted its
\* record, so the counter never runs ahead of the records delivered; once
\* the join has completed all NumImages records are delivered, and with
\* nothing read before the join that takes a channel holding all of them.
C18_DoneAfterDelivery ==
    /\ \A t \in Signalled : RecordOf(t) # {}
    /\ NumImages - wg <= Len(resultChan) + Len(outcomes)
    /\ joined => /\ Len(resultChan) + Len(outcomes) = NumImages
                 /\ \A t \in Tasks : RecordOf(t) # {}
                 /\ chanCap >= NumImages

\* The same in the runs in which no task has panicked.
C18_DoneAfterDeliveryNoPanic == (\A t \in Tasks : tpc[t] # "panicked") => C18_DoneAfterDelivery

\* C19: a run of indexImage that returns an error leaves sbom.json as it
\* was: no step before the last touches the file, the step that returns an
\* error does not either, and a run that has failed has attempted no write.
C19_FailedRunLeavesCache ==
    /\ [][(pc # "normalize" \/ ~IsNil(ret'.Error)) => file' = file]_vars
    /\ []((pc = "done" /\ ~IsNil(ret.Error)) => written = "none")

\* A run over a persisted document, with the cache disabled, has failed.
C19_Witness ==
    /\ Computed /\ ~IsNil(ret.Error) /\ IsNil(ret.Sbom)
    /\ noCache /\ PersistedValid(file) /\ written = "none"

\* C20: no engine goroutine outlives the call. When indexImage has returned
\* either no goroutine was started (the hit, and the failed acquisition) or
\* both have completed their one send, the trivy one into line 108 and the
\* syft one into line 109; a goroutine still running or sending is only
\* found while the caller is at the receive that takes its result or before.
C20_NoGoroutineLeft ==
    /\ pc = "done" =>
         \/ trivyPc = "idle" /\ syftPc = "idle" /\ ~lm.built
         \/ /\ trivyPc = "done" /\ syftPc = "done"
            /\ trivyResult = trivyOut /\ syftResult = syftOut
    /\ (pc = "done" /\ cacheHit(noCache, file) /\ written = "none" /\ IsNil(ret.Error))
         => trivyPc = "idle" /\ syftPc = "idle"
    /\ trivyPc \in {"running", "sending"} => pc = "recvTrivy"
    /\ syftPc \in {"running", "sending"} => pc \in {"recvTrivy", "recvSyft"}
    /\ pc \in {"start", "cache", "launch"} => trivyPc = "idle" /\ syftPc = "idle"

\* indexImage has returned an error on a miss whose trivy engine had failed.
C20_Witness ==
    /\ pc = "done" /\ trivyPc = "done" /\ syftPc = "done"
    /\ ~IsNil(trivyResult.Error) /\ ~IsNil(ret.Error)
====
